---------------------------- MODULE Spec2Model ----------------------------
(***************************************************************************)
(* A model of src/main.py: the XML class-model parser (XmlModelParser),    *)
(* the two renderers (ConfigGenerator), the delta engine (ConfigManager)   *)
(* and the batch run that chains them (Application.run).                   *)
(*                                                                         *)
(* Python values are modelled as follows.  A dict whose order is never     *)
(* observed (a flat config) is a function on its key set.  A dict whose    *)
(* iteration order is observed (parser.classes) is a sequence of records   *)
(* with distinct names, in insertion order.  A list is a sequence.  A      *)
(* string that the code inspects character by character (a multiplicity)   *)
(* is a sequence of one-character strings.  An exception is an error       *)
(* name carried in the outcome of the operation that raised it.            *)
(***************************************************************************)
EXTENDS Integers, Sequences, FiniteSets, TLC

VARIABLES
    original,   \* the config passed as `original` / `config`
    patched,    \* the config passed as `patched`
    delta,      \* the delta in hand
    result,     \* what apply_delta returned
    dpc         \* position of the delta cycle

deltaVars == <<original, patched, delta, result, dpc>>

VARIABLES
    parser,     \* the XmlModelParser instance: its classes and aggregations
    doc,        \* the document given to the latest parse call
    outcome,    \* how the latest parse call ended: "ok" or the error raised
    returned,   \* the graphs the parse calls returned, as they were on return
    calls       \* number of parse calls made on the instance

parseVars == <<parser, doc, outcome, returned, calls>>

VARIABLES
    model,      \* the model graph handed to the renderers
    xmlOut,     \* what generate_config_xml returned, or the error it raised
    metaOut     \* what generate_meta_json returned

renderVars == <<model, xmlOut, metaOut>>

VARIABLES
    env,        \* what a run finds: the input files, and the write that fails
    written,    \* the artifacts the run has written so far, in order
    rpc         \* position of Application.run

runVars == <<env, written, rpc>>

vars == <<deltaVars, parseVars, renderVars, runVars>>

---------------------------------------------------------------------------
(* Generic helpers for sequences.                                          *)

\* All sequences over S of length at most n.
SeqsUpTo(S, n) == UNION {[1..k -> S] : k \in 0..n}

\* All orderings of a finite set: the orders in which iterating a Python
\* set of strings may yield its elements (the order depends on the hash
\* seed of the process).
Orderings(S) ==
    {s \in [1..Cardinality(S) -> S] : \A i, j \in DOMAIN s : s[i] = s[j] => i = j}

Range(s) == {s[i] : i \in DOMAIN s}

MaxOf(S) == CHOOSE x \in S : \A y \in S : y <= x

---------------------------------------------------------------------------
(* ConfigManager: the delta engine.                                        *)

Keys == {"a", "b", "c", "d"}
Values == {1, 2}

\* FlatConfig: every mapping from some of the keys to values.
Configs == UNION {[K -> Values] : K \in SUBSET Keys}

EmptyConfig == [k \in {} |-> 0]
EmptyDelta == [additions |-> <<>>, deletions |-> <<>>, updates |-> <<>>]

\* updated.pop(key, None)
DictPop(d, key) == [k \in DOMAIN d \ {key} |-> d[k]]

\* updated[key] = value
DictSet(d, key, value) ==
    [k \in DOMAIN d \cup {key} |-> IF k = key THEN value ELSE d[k]]

\* patched_keys - original_keys
AdditionKeys(orig, pat) == DOMAIN pat \ DOMAIN orig

\* original_keys - patched_keys
DeletionKeys(orig, pat) == DOMAIN orig \ DOMAIN pat

\* A plausible slip: the != test is left out.
UpdateKeys_Untested(orig, pat) == DOMAIN orig \cap DOMAIN pat

\* the keys of original_keys & patched_keys that pass the != test
UpdateKeys(orig, pat) ==
    {k \in DOMAIN orig \cap DOMAIN pat : orig[k] # pat[k]}

\* The deltas compute_delta(orig, pat) may return: one per iteration order
\* of the three key sets.
compute_delta(orig, pat) ==
    {[additions |-> [i \in DOMAIN ao |-> [key |-> ao[i], value |-> pat[ao[i]]]],
      deletions |-> do,
      updates   |-> [i \in DOMAIN uo |->
                        [key |-> uo[i], from |-> orig[uo[i]], to |-> pat[uo[i]]]]] :
        ao \in Orderings(AdditionKeys(orig, pat)),
        do \in Orderings(DeletionKeys(orig, pat)),
        uo \in Orderings(UpdateKeys(orig, pat))}

RECURSIVE ApplyDeletions(_, _)
ApplyDeletions(updated, dels) ==
    IF dels = <<>> THEN updated
    ELSE ApplyDeletions(DictPop(updated, Head(dels)), Tail(dels))

RECURSIVE ApplyUpdates(_, _)
ApplyUpdates(updated, upds) ==
    IF upds = <<>> THEN updated
    ELSE ApplyUpdates(DictSet(updated, Head(upds).key, Head(upds).to), Tail(upds))

RECURSIVE ApplyAdditions(_, _)
ApplyAdditions(updated, adds) ==
    IF adds = <<>> THEN updated
    ELSE ApplyAdditions(DictSet(updated, Head(adds).key, Head(adds).value), Tail(adds))

\* A plausible slip: the deletions loop is left out.
apply_delta_KeepsDeleted(config, d) ==
    ApplyAdditions(ApplyUpdates(config, d.updates), d.additions)

\* A plausible slip: updates are applied after additions.
apply_delta_UpdatesLast(config, d) ==
    ApplyUpdates(ApplyAdditions(ApplyDeletions(config, d.deletions), d.additions),
                 d.updates)

apply_delta(config, d) ==
    ApplyAdditions(ApplyUpdates(ApplyDeletions(config, d.deletions), d.updates),
                   d.additions)

---------------------------------------------------------------------------
(* XmlModelParser.                                                         *)
(*                                                                         *)
(* An element of the document is [tag, attrib, children]: attrib is the    *)
(* element's attribute map (a function on the attribute names present),    *)
(* children the nested elements.  The value of sourceMultiplicity is a     *)
(* sequence of characters, since _parse_multiplicity looks inside it.      *)

\* XmlModelParser.__init__
NewParser == [classes |-> <<>>, aggregations |-> <<>>]

ParseIdle ==
    /\ parser = NewParser
    /\ doc = <<>>
    /\ outcome = "none"
    /\ returned = <<>>
    /\ calls = 0

\* Nothing parsed or rendered yet.
NoModel == [classes |-> <<>>]
NoXml == [err |-> "none", lines |-> <<>>]
NoMeta == [err |-> "none", entries |-> <<>>]

RenderIdle ==
    /\ model = NoModel
    /\ xmlOut = NoXml
    /\ metaOut = NoMeta

NoFile == [exists |-> FALSE, content |-> <<>>]

RunIdle ==
    /\ env = [xml |-> NoFile, config |-> NoFile, patched |-> NoFile, failWrite |-> "none"]
    /\ written = <<>>
    /\ rpc = "idle"

\* ".." in mult
ContainsDots(mult) ==
    \E i \in 1..(Len(mult) - 1) : mult[i] = "." /\ mult[i + 1] = "."

\* str.strip(chars): drops every leading and every trailing character that
\* is in chars.
RECURSIVE LStrip(_, _)
LStrip(s, chars) ==
    IF s # <<>> /\ Head(s) \in chars THEN LStrip(Tail(s), chars) ELSE s

RECURSIVE RStrip(_, _)
RStrip(s, chars) ==
    IF s # <<>> /\ s[Len(s)] \in chars
    THEN RStrip(SubSeq(s, 1, Len(s) - 1), chars)
    ELSE s

Strip(s, chars) == RStrip(LStrip(s, chars), chars)

\* str.split(".."): the parts between the occurrences of "..", found left
\* to right without overlap.
RECURSIVE SplitDots(_)
SplitDots(s) ==
    IF ~ContainsDots(s) THEN <<s>>
    ELSE LET i == CHOOSE j \in 1..(Len(s) - 1) :
                    /\ s[j] = "." /\ s[j + 1] = "."
                    /\ \A h \in 1..(j - 1) : ~(s[h] = "." /\ s[h + 1] = ".")
         IN  <<SubSeq(s, 1, i - 1)>> \o SplitDots(SubSeq(s, i + 2, Len(s)))

\* A plausible slip: only one leading "[" and one trailing "]" are removed.
StripBrackets_Single(mult) ==
    LET a == IF mult # <<>> /\ Head(mult) = "[" THEN Tail(mult) ELSE mult
    IN  IF a # <<>> /\ a[Len(a)] = "]" THEN SubSeq(a, 1, Len(a) - 1) ELSE a

\* mult.strip("[]")
StripBrackets(mult) == Strip(mult, {"[", "]"})

\* XmlModelParser._parse_multiplicity: the list or tuple it returns.
_parse_multiplicity(mult) ==
    IF ContainsDots(mult) THEN SplitDots(StripBrackets(mult)) ELSE <<mult, mult>>

\* XmlModelParser._parse_attributes: [err, value].
RECURSIVE _parse_attributes(_)
_parse_attributes(children) ==
    IF children = <<>> THEN [err |-> "", value |-> <<>>]
    ELSE LET a == Head(children)
         IN  IF a.tag # "Attribute" THEN _parse_attributes(Tail(children))
             ELSE IF ~({"name", "type"} \subseteq DOMAIN a.attrib)
             THEN [err |-> "KeyError", value |-> <<>>]
             ELSE LET rest == _parse_attributes(Tail(children))
                  IN  IF rest.err # "" THEN rest
                      ELSE [err |-> "",
                            value |-> <<[name |-> a.attrib["name"],
                                         type |-> a.attrib["type"]]>> \o rest.value]

\* Position of the class called name in the ordered dict, 0 when absent.
ClassIndex(classes, name) ==
    IF \E i \in DOMAIN classes : classes[i].name = name
    THEN CHOOSE i \in DOMAIN classes : classes[i].name = name
    ELSE 0

\* self.classes[class_name] = value: a new key goes last, an existing key
\* keeps its place.
ClassesSet(classes, name, value) ==
    IF ClassIndex(classes, name) = 0 THEN Append(classes, value)
    ELSE [classes EXCEPT ![ClassIndex(classes, name)] = value]

\* elem.attrib["isRoot"] == "true"
IsRootAttr(attrib) ==
    IF "isRoot" \in DOMAIN attrib
    THEN [err |-> "", value |-> attrib["isRoot"] = "true"]
    ELSE [err |-> "KeyError", value |-> FALSE]

\* XmlModelParser._process_class_element: [err, parser].
_process_class_element(p, elem) ==
    IF "name" \notin DOMAIN elem.attrib THEN [err |-> "KeyError", parser |-> p]
    ELSE IF IsRootAttr(elem.attrib).err # ""
    THEN [err |-> IsRootAttr(elem.attrib).err, parser |-> p]
    ELSE IF _parse_attributes(elem.children).err # ""
    THEN [err |-> _parse_attributes(elem.children).err, parser |-> p]
    ELSE [err |-> "",
          parser |->
            [p EXCEPT !.classes =
               ClassesSet(@, elem.attrib["name"],
                 [name |-> elem.attrib["name"],
                  is_root |-> IsRootAttr(elem.attrib).value,
                  doc |-> IF "documentation" \in DOMAIN elem.attrib
                          THEN elem.attrib["documentation"] ELSE "",
                  attributes |-> _parse_attributes(elem.children).value,
                  relationships |-> <<>>])]]

\* XmlModelParser._process_aggregation_element: [err, parser].  Unpacking
\* the parsed multiplicity into (min_val, max_val) raises ValueError unless
\* it has exactly two parts.
_process_aggregation_element(p, elem) ==
    IF "sourceMultiplicity" \notin DOMAIN elem.attrib
    THEN [err |-> "KeyError", parser |-> p]
    ELSE LET parts == _parse_multiplicity(elem.attrib["sourceMultiplicity"])
         IN  IF Len(parts) # 2 THEN [err |-> "ValueError", parser |-> p]
             ELSE IF ~({"source", "target"} \subseteq DOMAIN elem.attrib)
             THEN [err |-> "KeyError", parser |-> p]
             ELSE [err |-> "",
                   parser |->
                     [p EXCEPT !.aggregations =
                        Append(@, [source |-> elem.attrib["source"],
                                   target |-> elem.attrib["target"],
                                   src_min |-> parts[1],
                                   src_max |-> parts[2]])]]

RelationshipOf(agg) ==
    [name |-> agg.source, type |-> "class", min |-> agg.src_min, max |-> agg.src_max]

\* One turn of the loop of _link_aggregations.
LinkOne(classes, agg) ==
    IF ClassIndex(classes, agg.target) = 0 THEN classes
    ELSE [classes EXCEPT ![ClassIndex(classes, agg.target)].relationships =
            Append(@, RelationshipOf(agg))]

RECURSIVE LinkAll(_, _)
LinkAll(classes, aggs) ==
    IF aggs = <<>> THEN classes
    ELSE LinkAll(LinkOne(classes, Head(aggs)), Tail(aggs))

\* XmlModelParser._link_aggregations
_link_aggregations(p) == [p EXCEPT !.classes = LinkAll(p.classes, p.aggregations)]

\* The loop of parse over the elements of the document: [err, parser].  An
\* error ends the loop and leaves the parser as the elements before it
\* made it.
RECURSIVE ProcessElements(_, _)
ProcessElements(p, elems) ==
    IF elems = <<>> THEN [err |-> "", parser |-> p]
    ELSE LET e == Head(elems)
             r == IF e.tag = "Class" THEN _process_class_element(p, e)
                  ELSE IF e.tag = "Aggregation" THEN _process_aggregation_element(p, e)
                  ELSE [err |-> "", parser |-> p]
         IN  IF r.err # "" THEN r ELSE ProcessElements(r.parser, Tail(elems))

\* A plausible slip: each aggregation is linked when it is met, not after
\* the whole document has been processed.
RECURSIVE ProcessElementsLinking(_, _)
ProcessElementsLinking(p, elems) ==
    IF elems = <<>> THEN [err |-> "", parser |-> p]
    ELSE LET e == Head(elems)
             r == IF e.tag = "Class" THEN _process_class_element(p, e)
                  ELSE IF e.tag = "Aggregation"
                  THEN LET a == _process_aggregation_element(p, e)
                       IN  IF a.err # "" THEN a
                           ELSE [err |-> "",
                                 parser |-> [a.parser EXCEPT !.classes =
                                    LinkOne(@, a.parser.aggregations[
                                                 Len(a.parser.aggregations)])]]
                  ELSE [err |-> "", parser |-> p]
         IN  IF r.err # "" THEN r ELSE ProcessElementsLinking(r.parser, Tail(elems))

parse_LinksEagerly(p, document) == ProcessElementsLinking(p, document)

\* XmlModelParser.parse on the instance p: [err, parser]; when err = "" the
\* call returns {"classes": self.classes}.
parse(p, document) ==
    LET r == ProcessElements(p, document)
    IN  IF r.err # "" THEN r ELSE [err |-> "", parser |-> _link_aggregations(r.parser)]

\* return {"classes": self.classes}
GraphOf(p) == [classes |-> p.classes]

---------------------------------------------------------------------------
(* The documents the parser is given.                                      *)

Mult_1_many == <<"[", "1", ".", ".", "*", "]">>
Mult_3 == <<"3">>
Mult_bad == <<"1", ".", ".", "2", ".", ".", "3">>

AttributeElem(n, t) ==
    [tag |-> "Attribute", attrib |-> [name |-> n, type |-> t], children |-> <<>>]

ClassElems ==
    {[tag |-> "Class", attrib |-> [name |-> "A", isRoot |-> r],
      children |-> <<AttributeElem("color", "string")>>] : r \in {"true", "false", "yes"}}
    \cup
    {[tag |-> "Class", attrib |-> [name |-> "A", documentation |-> "top"],
      children |-> <<>>],
     [tag |-> "Class", attrib |-> [name |-> "B", isRoot |-> "false"],
      children |-> <<>>],
     [tag |-> "Class", attrib |-> [isRoot |-> "false"], children |-> <<>>]}

AggregationElem(s, t, m) ==
    [tag |-> "Aggregation",
     attrib |-> [source |-> s, target |-> t, sourceMultiplicity |-> m],
     children |-> <<>>]

AggregationElems ==
    {AggregationElem("B", "A", m) : m \in {Mult_1_many, Mult_3, Mult_bad}}
    \cup
    {AggregationElem(s, t, Mult_3) :
        s \in {"A", "B"}, t \in {"A", "B", "X"}}

Elems == ClassElems \cup AggregationElems

\* Longest document.
MaxDecls == 3

Docs == SeqsUpTo(Elems, MaxDecls)

---------------------------------------------------------------------------
(* ParseSpec: one parse call on a newly constructed parser, which is how   *)
(* Application uses it.  ReuseSpec: several parse calls on one instance.   *)

\* parser.parse(document)
ParseCall(document) ==
    /\ doc' = document
    /\ calls' = calls + 1
    /\ LET r == parse(parser, document)
       IN  /\ parser' = r.parser
           /\ outcome' = IF r.err = "" THEN "ok" ELSE r.err
           /\ returned' = IF r.err = "" THEN Append(returned, GraphOf(r.parser))
                          ELSE returned

ParseInit ==
    /\ ParseIdle
    /\ RenderIdle
    /\ RunIdle
    /\ original = EmptyConfig /\ patched = EmptyConfig /\ delta = EmptyDelta
    /\ result = EmptyConfig /\ dpc = "idle"

ParseOnce ==
    /\ calls = 0
    /\ \E d \in Docs : ParseCall(d)
    /\ UNCHANGED <<deltaVars, renderVars, runVars>>

ParseSpec == ParseInit /\ [][ParseOnce]_vars

\* Longest document and most calls when one instance is reused.
MaxReuseDecls == 2
MaxParses == 2

ParseAgain ==
    /\ calls < MaxParses
    /\ \E d \in SeqsUpTo(Elems, MaxReuseDecls) : ParseCall(d)
    /\ UNCHANGED <<deltaVars, renderVars, runVars>>

ReuseSpec == ParseInit /\ [][ParseAgain]_vars

\* Multiplicity strings of every shape.
MultChars == {"[", "]", ".", "1", "*"}
MaxMultLen == 6

ParseMult ==
    /\ calls = 0
    /\ \E m \in SeqsUpTo(MultChars, MaxMultLen) : ParseCall(<<AggregationElem("B", "A", m)>>)
    /\ UNCHANGED <<deltaVars, renderVars, runVars>>

MultSpec == ParseInit /\ [][ParseMult]_vars

---------------------------------------------------------------------------
(* Claims about the parser.                                                *)

\* What the code needs of an element to process it without raising.
Processable(e) ==
    IF e.tag = "Class"
    THEN /\ {"name", "isRoot"} \subseteq DOMAIN e.attrib
         /\ \A i \in DOMAIN e.children :
               e.children[i].tag = "Attribute" =>
                  {"name", "type"} \subseteq DOMAIN e.children[i].attrib
    ELSE IF e.tag = "Aggregation"
    THEN /\ {"source", "target", "sourceMultiplicity"} \subseteq DOMAIN e.attrib
         /\ Len(_parse_multiplicity(e.attrib["sourceMultiplicity"])) = 2
    ELSE TRUE

IsClassDecl(e) == e.tag = "Class"
IsAggregationDecl(e) == e.tag = "Aggregation"

\* Names of the classes a document declares.
DeclaredNames(document) ==
    {document[i].attrib["name"] : i \in {j \in DOMAIN document : IsClassDecl(document[j])}}

\* The relationships the Aggregation declarations of a document give class
\* T, in declaration order.
DeclaredRelationships(document, T) ==
    LET Targets(e) == IsAggregationDecl(e) /\ e.attrib["target"] = T
        sel == SelectSeq(document, Targets)
    IN  [i \in DOMAIN sel |->
           [name |-> sel[i].attrib["source"],
            type |-> "class",
            min |-> _parse_multiplicity(sel[i].attrib["sourceMultiplicity"])[1],
            max |-> _parse_multiplicity(sel[i].attrib["sourceMultiplicity"])[2]]]

\* C5: for every Class declaration that carries a name, parsing succeeds
\* and is_root is true exactly when the isRoot attribute is the string
\* "true"; any other value, and a missing isRoot attribute, give is_root =
\* FALSE and no error.
C5_IsRootDefault ==
    (/\ calls = 1
     /\ \A i \in DOMAIN doc :
           IF IsClassDecl(doc[i]) THEN "name" \in DOMAIN doc[i].attrib
           ELSE Processable(doc[i]))
    => /\ outcome = "ok"
       /\ \A c \in Range(parser.classes) :
             LET last == MaxOf({i \in DOMAIN doc :
                                  IsClassDecl(doc[i]) /\ doc[i].attrib["name"] = c.name})
             IN  c.is_root = (/\ "isRoot" \in DOMAIN doc[last].attrib
                              /\ doc[last].attrib["isRoot"] = "true")

\* C6: linking does not depend on how Class and Aggregation declarations
\* are interleaved.  After a parse, the graph holds the declared classes,
\* and each class T has exactly one relationship {name: source, type:
\* "class", min, max} per Aggregation whose target is T, in declaration
\* order, also when the Aggregation comes before the declaration of T; an
\* Aggregation whose target is not declared adds nothing and raises nothing.
C6_Linking ==
    calls = 1 =>
        /\ (\A i \in DOMAIN doc : Processable(doc[i])) => outcome = "ok"
        /\ outcome = "ok" =>
              /\ {c.name : c \in Range(returned[1].classes)} = DeclaredNames(doc)
              /\ \A c \in Range(returned[1].classes) :
                    c.relationships = DeclaredRelationships(doc, c.name)

\* C6 witness: a parse that succeeded on a document in which an Aggregation
\* precedes the declaration of its target and was linked to it, and another
\* Aggregation names a target that is never declared.
C6_Witness ==
    /\ calls = 1
    /\ outcome = "ok"
    /\ \E i, j \in DOMAIN doc :
          /\ i < j
          /\ IsAggregationDecl(doc[i]) /\ IsClassDecl(doc[j])
          /\ doc[i].attrib["target"] = doc[j].attrib["name"]
          /\ \A h \in 1..(j - 1) : ~IsClassDecl(doc[h])
          /\ \E c \in Range(returned[1].classes) :
                c.name = doc[j].attrib["name"] /\ c.relationships # <<>>
    /\ \E i \in DOMAIN doc :
          IsAggregationDecl(doc[i]) /\ doc[i].attrib["target"] \notin DeclaredNames(doc)

\* The split the claim describes: one leading "[" and one trailing "]" are
\* removed before splitting on "..".
ClaimedMultiplicity(s) ==
    IF ContainsDots(s) THEN SplitDots(StripBrackets_Single(s)) ELSE <<s, s>>

\* C9: multiplicity parsing.  A string without ".." gives (s, s); one with
\* ".." loses a single leading "[" and a single trailing "]" and is split on
\* "..", giving (min, max) when that yields two parts and failing the parse,
\* with no aggregation recorded, when it yields any other number.
C9_Multiplicity ==
    calls = 1 /\ Len(doc) = 1 /\ IsAggregationDecl(doc[1]) =>
        LET parts == ClaimedMultiplicity(doc[1].attrib["sourceMultiplicity"])
        IN  IF Len(parts) = 2
            THEN /\ outcome = "ok"
                 /\ parser.aggregations =
                      <<[source |-> doc[1].attrib["source"],
                         target |-> doc[1].attrib["target"],
                         src_min |-> parts[1], src_max |-> parts[2]]>>
            ELSE /\ outcome # "ok"
                 /\ parser.aggregations = <<>>

\* Every graph a parse call returned is {"classes": self.classes}: it holds
\* the parser's own dict, so what a caller sees in it is the parser's
\* classes as they are now.
ReturnedNow(i) == GraphOf(parser)

\* C10: no state is shared across parse calls.  The graph each call returns
\* is the one a new parser returns for the same document, and a graph
\* returned earlier is not changed by a later call.
C10_NoSharedState ==
    /\ outcome = "ok" =>
          returned[Len(returned)] = GraphOf(parse(NewParser, doc).parser)
    /\ \A i \in DOMAIN returned : ReturnedNow(i) = returned[i]

---------------------------------------------------------------------------
(* ConfigGenerator: the tree renderer and the metadata renderer.           *)
(*                                                                         *)
(* The text generate_config_xml returns is modelled as its sequence of     *)
(* lines; a line is [indent, kind, name, type], kind being "leaf" for      *)
(* <name>type</name>, "open" for <name>, "close" for </name> and "blank"   *)
(* for an empty line.                                                      *)

\* Depth of nested build_xml calls the interpreter allows before it raises
\* RecursionError (scaled down from the interpreter's limit).
RecursionLimit == 2

\* The indentation step of build_xml, and the indentation of the root's body.
IndentStep == 4

Line(i, k, n, t) == [indent |-> i, kind |-> k, name |-> n, type |-> t]

\* "\n".join(xml) of an empty list is the empty string: one empty line.
JoinLines(lines) == IF lines = <<>> THEN <<Line(0, "blank", "", "")>> ELSE lines

\* A plausible slip: the attributes are emitted last to first.
AttributeLines_Reversed(cls, indent) ==
    [i \in DOMAIN cls.attributes |->
        Line(indent, "leaf", cls.attributes[Len(cls.attributes) + 1 - i].name,
             cls.attributes[Len(cls.attributes) + 1 - i].type)]

\* for attr in cls["attributes"]: xml.append(...)
AttributeLines(cls, indent) ==
    [i \in DOMAIN cls.attributes |->
        Line(indent, "leaf", cls.attributes[i].name, cls.attributes[i].type)]

RECURSIVE build_xml(_, _, _, _)
RECURSIVE RelationshipLines(_, _, _, _)

\* for rel in cls["relationships"]: the opening line, the nested build_xml
\* and the closing line of each; [err, lines].
RelationshipLines(m, rels, indent, depth) ==
    IF rels = <<>> THEN [err |-> "", lines |-> <<>>]
    ELSE LET rel == Head(rels)
             sub == build_xml(m, rel.name, indent + IndentStep, depth + 1)
         IN  IF sub.err # "" THEN sub
             ELSE LET rest == RelationshipLines(m, Tail(rels), indent, depth)
                  IN  IF rest.err # "" THEN rest
                      ELSE [err |-> "",
                            lines |-> <<Line(indent, "open", rel.name, "")>>
                                      \o sub.lines
                                      \o <<Line(indent, "close", rel.name, "")>>
                                      \o rest.lines]

\* build_xml(class_name, indent), the depth-th nested call: [err, lines].
build_xml(m, class_name, indent, depth) ==
    IF depth > RecursionLimit THEN [err |-> "RecursionError", lines |-> <<>>]
    ELSE IF ClassIndex(m.classes, class_name) = 0
    THEN [err |-> "KeyError", lines |-> <<>>]
    ELSE LET cls == m.classes[ClassIndex(m.classes, class_name)]
             rels == RelationshipLines(m, cls.relationships, indent, depth)
         IN  IF rels.err # "" THEN rels
             ELSE [err |-> "",
                   lines |-> JoinLines(AttributeLines(cls, indent) \o rels.lines)]

\* next(cls for cls in model["classes"].values() if cls["is_root"]): the
\* position of the first root class, 0 when there is none (StopIteration).
FirstRoot(m) ==
    IF \E i \in DOMAIN m.classes : m.classes[i].is_root
    THEN CHOOSE i \in DOMAIN m.classes :
            /\ m.classes[i].is_root
            /\ \A j \in 1..(i - 1) : ~m.classes[j].is_root
    ELSE 0

\* ConfigGenerator.generate_config_xml: [err, lines].
generate_config_xml(m) ==
    IF FirstRoot(m) = 0 THEN [err |-> "StopIteration", lines |-> <<>>]
    ELSE LET root == m.classes[FirstRoot(m)].name
             body == build_xml(m, root, IndentStep, 1)
         IN  IF body.err # "" THEN body
             ELSE [err |-> "",
                   lines |-> <<Line(0, "open", root, "")>> \o body.lines
                             \o <<Line(0, "close", root, "")>>]

\* The first pass of generate_meta_json: one descriptor per class.
MetaEntry(cls) ==
    [class |-> cls.name,
     documentation |-> cls.doc,
     isRoot |-> cls.is_root,
     parameters |->
        [i \in DOMAIN cls.attributes |->
            [name |-> cls.attributes[i].name, type |-> cls.attributes[i].type]]
        \o [i \in DOMAIN cls.relationships |->
            [name |-> cls.relationships[i].name, type |-> "class"]]]

\* next((c for c in meta if c["class"] == rel["name"]), None): position of
\* the first such descriptor, 0 for None.
MetaIndex(meta, name) ==
    IF \E i \in DOMAIN meta : meta[i]["class"] = name
    THEN CHOOSE i \in DOMAIN meta :
            /\ meta[i]["class"] = name
            /\ \A j \in 1..(i - 1) : meta[j]["class"] # name
    ELSE 0

\* A plausible slip: bounds already attached are kept.
AttachBounds_FirstWins(meta, rel) ==
    IF MetaIndex(meta, rel.name) = 0 THEN meta
    ELSE IF "min" \in DOMAIN meta[MetaIndex(meta, rel.name)] THEN meta
    ELSE [meta EXCEPT ![MetaIndex(meta, rel.name)] =
            DictSet(DictSet(@, "min", rel.min), "max", rel.max)]

\* if related_cls: related_cls["min"] = rel["min"]; related_cls["max"] = rel["max"]
AttachBounds(meta, rel) ==
    IF MetaIndex(meta, rel.name) = 0 THEN meta
    ELSE [meta EXCEPT ![MetaIndex(meta, rel.name)] =
            DictSet(DictSet(@, "min", rel.min), "max", rel.max)]

RECURSIVE AttachAll(_, _)
AttachAll(meta, rels) ==
    IF rels = <<>> THEN meta ELSE AttachAll(AttachBounds(meta, Head(rels)), Tail(rels))

\* The second pass: for entry in meta, for rel in the relationships of the
\* entry's class.
RECURSIVE SecondPass(_, _, _)
SecondPass(m, meta, i) ==
    IF i > Len(meta) THEN meta
    ELSE SecondPass(m,
            AttachAll(meta,
               m.classes[ClassIndex(m.classes, meta[i]["class"])].relationships),
            i + 1)

\* ConfigGenerator.generate_meta_json
generate_meta_json(m) ==
    SecondPass(m, [i \in DOMAIN m.classes |-> MetaEntry(m.classes[i])], 1)

---------------------------------------------------------------------------
(* TreeSpec and MetaSpec: the renderers on model graphs of every shape:    *)
(* no root, several roots, cycles, chains, a class related twice,          *)
(* relationships that name an undeclared class.  A graph is the declared   *)
(* classes, in some order, to which aggregations are linked one at a time  *)
(* as _link_aggregations links them.                                       *)

TreeNames == {"A", "B", "C"}
MetaNames == {"A", "B"}
Undeclared == "X"

\* Most relationships in a graph.
MaxRels == 3

AttributesOf(n) ==
    IF n = "A"
    THEN <<[name |-> "color", type |-> "string"], [name |-> "size", type |-> "int"]>>
    ELSE IF n = "C" THEN <<[name |-> "power", type |-> "int"]>>
    ELSE <<>>

\* The orders in which some of the names may be declared.
ClassOrders(names) == UNION {Orderings(S) : S \in SUBSET names}

\* The graph that declares the classes of order in that order, with root
\* flags roots[name] and nothing linked yet.
Graph(order, roots) ==
    [classes |-> [i \in DOMAIN order |->
                    [name |-> order[i],
                     is_root |-> roots[order[i]],
                     doc |-> "",
                     attributes |-> AttributesOf(order[i]),
                     relationships |-> <<>>]]]

RECURSIVE CountRelationships(_)
CountRelationships(classes) ==
    IF classes = <<>> THEN 0
    ELSE Len(Head(classes).relationships) + CountRelationships(Tail(classes))

\* One more aggregation linked into the graph in hand.
Link(names, bounds) ==
    /\ xmlOut = NoXml /\ metaOut = NoMeta
    /\ CountRelationships(model.classes) < MaxRels
    /\ \E s \in names \cup {Undeclared}, t \in names, b \in bounds :
          model' = [classes |->
                      LinkOne(model.classes,
                              [source |-> s, target |-> t,
                               src_min |-> b[1], src_max |-> b[2]])]

TreeInit ==
    /\ \E order \in ClassOrders(TreeNames), roots \in [TreeNames -> BOOLEAN] :
          model = Graph(order, roots)
    /\ xmlOut = NoXml
    /\ metaOut = NoMeta
    /\ ParseIdle
    /\ RunIdle
    /\ original = EmptyConfig /\ patched = EmptyConfig /\ delta = EmptyDelta
    /\ result = EmptyConfig /\ dpc = "idle"

TreeLink ==
    /\ Link(TreeNames, {<<"1", "1">>})
    /\ UNCHANGED <<xmlOut, metaOut, deltaVars, parseVars, runVars>>

\* self.config_generator.generate_config_xml(model)
GenerateConfigXml ==
    /\ xmlOut = NoXml
    /\ xmlOut' = generate_config_xml(model)
    /\ UNCHANGED <<model, metaOut, deltaVars, parseVars, runVars>>

TreeNext == TreeLink \/ GenerateConfigXml

TreeSpec == TreeInit /\ [][TreeNext]_vars

MetaInit ==
    /\ \E order \in ClassOrders(MetaNames) :
          model = Graph(order, [n \in MetaNames |-> n = "A"])
    /\ xmlOut = NoXml
    /\ metaOut = NoMeta
    /\ ParseIdle
    /\ RunIdle
    /\ original = EmptyConfig /\ patched = EmptyConfig /\ delta = EmptyDelta
    /\ result = EmptyConfig /\ dpc = "idle"

MetaLink ==
    /\ Link(MetaNames, {<<"1", "1">>, <<"0", "*">>})
    /\ UNCHANGED <<xmlOut, metaOut, deltaVars, parseVars, runVars>>

\* self.config_generator.generate_meta_json(model)
GenerateMetaJson ==
    /\ metaOut = NoMeta
    /\ metaOut' = [err |-> "", entries |-> generate_meta_json(model)]
    /\ UNCHANGED <<model, xmlOut, deltaVars, parseVars, runVars>>

MetaNext == MetaLink \/ GenerateMetaJson

MetaSpec == MetaInit /\ [][MetaNext]_vars

---------------------------------------------------------------------------
(* Claims about the renderers.                                             *)

RootCount(m) == Cardinality({i \in DOMAIN m.classes : m.classes[i].is_root})

\* Names the relationships of the classes named in S refer to.
Related(m, S) ==
    UNION {{r.name : r \in Range(c.relationships)} :
              c \in {d \in Range(m.classes) : d.name \in S}}

RECURSIVE RelatedWithin(_, _, _)
RelatedWithin(m, S, n) ==
    IF n = 0 THEN S ELSE RelatedWithin(m, S \cup Related(m, S), n - 1)

\* Names reached from class n by one relationship or more.
Descendants(m, n) == RelatedWithin(m, Related(m, {n}), Len(m.classes))

Acyclic(m) == \A c \in Range(m.classes) : c.name \notin Descendants(m, c.name)

\* Every relationship met when descending from the root names a class of
\* the graph.
RefsDeclared(m) ==
    \A n \in Descendants(m, m.classes[FirstRoot(m)].name) :
        ClassIndex(m.classes, n) # 0

\* The elements of a finite set of integers, in increasing order.
Ascending(S) ==
    [k \in 1..Cardinality(S) |->
        CHOOSE x \in S : Cardinality({y \in S : y < x}) = k - 1]

\* The line closing the element opened at line i.
CloseOf(L, i) ==
    CHOOSE j \in (i + 1)..Len(L) :
        /\ L[j].kind = "close" /\ L[j].indent = L[i].indent
        /\ \A h \in (i + 1)..(j - 1) :
              ~(L[h].kind = "close" /\ L[h].indent = L[i].indent)

\* The lines form the tree of the graph: the first line opens the root and
\* the last closes it, and every element, opened at indentation d for class
\* n, is closed by a line of the same name and holds directly inside
\* it, one step deeper and in this order, one leaf per attribute of n and
\* then one element per relationship of n.
TreeShape(m, L) ==
    /\ Len(L) >= 2
    /\ L[1] = Line(0, "open", m.classes[FirstRoot(m)].name, "")
    /\ \A i \in DOMAIN L :
          L[i].kind = "open" =>
             /\ \E j \in (i + 1)..Len(L) : L[j].kind = "close" /\ L[j].indent = L[i].indent
             /\ L[CloseOf(L, i)].name = L[i].name
             /\ i = 1 => CloseOf(L, i) = Len(L)
             /\ ClassIndex(m.classes, L[i].name) # 0
             /\ LET cls == m.classes[ClassIndex(m.classes, L[i].name)]
                    d == L[i].indent + IndentStep
                    inside == (i + 1)..(CloseOf(L, i) - 1)
                    direct == Ascending({j \in inside :
                                  L[j].kind \in {"leaf", "open"} /\ L[j].indent = d})
                IN  /\ \A j \in inside : L[j].kind # "blank" => L[j].indent >= d
                    /\ [k \in DOMAIN direct |-> L[direct[k]]] =
                          [k \in DOMAIN cls.attributes |->
                              Line(d, "leaf", cls.attributes[k].name, cls.attributes[k].type)]
                          \o [k \in DOMAIN cls.relationships |->
                              Line(d, "open", cls.relationships[k].name, "")]

\* Deepest nesting of build_xml calls when rendering class n of an acyclic
\* graph.
RECURSIVE NestingDepth(_, _)
NestingDepth(m, n) ==
    IF ClassIndex(m.classes, n) = 0 THEN 1
    ELSE LET rels == m.classes[ClassIndex(m.classes, n)].relationships
             below == {NestingDepth(m, rels[i].name) : i \in DOMAIN rels}
         IN  IF below = {} THEN 1 ELSE 1 + MaxOf(below)

RootDepth(m) == NestingDepth(m, m.classes[FirstRoot(m)].name)

RECURSIVE AllRelationships(_)
AllRelationships(classes) ==
    IF classes = <<>> THEN <<>>
    ELSE Head(classes).relationships \o AllRelationships(Tail(classes))

\* C8: generate_meta_json gives one descriptor per class, in graph order,
\* and attaches multiplicity to the descriptor of the class a relationship
\* names, the last writer winning: a class no relationship names has no
\* min/max; otherwise its min/max are those of the last relationship naming
\* it in the nested iteration order.  The parameter entries of
\* relationships are {name, type: "class"} only.
C8_LastWriterWins ==
    metaOut # NoMeta =>
        LET meta == metaOut.entries
            rels == AllRelationships(model.classes)
        IN  /\ Len(meta) = Len(model.classes)
            /\ \A i \in DOMAIN meta :
                  LET cls == model.classes[i]
                      naming == {j \in DOMAIN rels : rels[j].name = cls.name}
                  IN  /\ meta[i]["class"] = cls.name
                      /\ meta[i]["documentation"] = cls.doc
                      /\ meta[i]["isRoot"] = cls.is_root
                      /\ IF naming = {}
                         THEN DOMAIN meta[i] =
                                {"class", "documentation", "isRoot", "parameters"}
                         ELSE /\ DOMAIN meta[i] =
                                   {"class", "documentation", "isRoot", "parameters",
                                    "min", "max"}
                              /\ meta[i]["min"] = rels[MaxOf(naming)].min
                              /\ meta[i]["max"] = rels[MaxOf(naming)].max
                      /\ Len(meta[i]["parameters"]) =
                            Len(cls.attributes) + Len(cls.relationships)
                      /\ \A k \in DOMAIN cls.relationships :
                            meta[i]["parameters"][Len(cls.attributes) + k] =
                               [name |-> cls.relationships[k].name, type |-> "class"]

\* C8 witness: metadata rendered for a graph in which one class is named by
\* relationships of two classes with different bounds, and another class
\* is named by no relationship.
C8_Witness ==
    /\ metaOut # NoMeta
    /\ LET rels == AllRelationships(model.classes)
       IN  /\ \E c \in Range(model.classes) :
                 \A j \in DOMAIN rels : rels[j].name # c.name
           /\ \E c, d, e \in Range(model.classes) :
                 /\ d.name # e.name
                 /\ \E r \in Range(d.relationships), q \in Range(e.relationships) :
                       r.name = c.name /\ q.name = c.name /\ r.min # q.min

---------------------------------------------------------------------------
(* DeltaSpec: one compute/apply cycle, as Application.run performs it, on  *)
(* every pair of flat configs.                                             *)

DeltaInit ==
    /\ original \in Configs
    /\ patched \in Configs
    /\ delta = EmptyDelta
    /\ result = EmptyConfig
    /\ dpc = "loaded"
    /\ ParseIdle
    /\ RenderIdle
    /\ RunIdle

\* delta = self.config_manager.compute_delta(original_config, patched_config)
ComputeDelta ==
    /\ dpc = "loaded"
    /\ delta' \in compute_delta(original, patched)
    /\ dpc' = "computed"
    /\ UNCHANGED <<original, patched, result, parseVars, renderVars, runVars>>

\* result_config = self.config_manager.apply_delta(original_config, delta)
ApplyDelta ==
    /\ dpc = "computed"
    /\ result' = apply_delta(original, delta)
    /\ dpc' = "applied"
    /\ UNCHANGED <<original, patched, delta, parseVars, renderVars, runVars>>

DeltaNext == ComputeDelta \/ ApplyDelta

DeltaSpec == DeltaInit /\ [][DeltaNext]_vars

---------------------------------------------------------------------------
(* ApplySpec: apply_delta on a delta that need not come from               *)
(* compute_delta.  The caller builds the three lists entry by entry (any   *)
(* key may occur in several lists, or several times in one list) and then  *)
(* applies the delta to the config.                                        *)

ApplyKeys == {"a", "b"}
ApplyConfigs == UNION {[K -> Values] : K \in SUBSET ApplyKeys}

\* Most entries a hand-built delta holds, over its three lists.
MaxEntries == 3

DeltaSize(d) == Len(d.additions) + Len(d.deletions) + Len(d.updates)

ApplyInit ==
    /\ original \in ApplyConfigs
    /\ patched = EmptyConfig
    /\ delta = EmptyDelta
    /\ result = EmptyConfig
    /\ dpc = "building"
    /\ ParseIdle
    /\ RenderIdle
    /\ RunIdle

AppendDeletion ==
    /\ dpc = "building"
    /\ DeltaSize(delta) < MaxEntries
    /\ \E k \in ApplyKeys :
          delta' = [delta EXCEPT !.deletions = Append(@, k)]
    /\ UNCHANGED <<original, patched, result, dpc, parseVars, renderVars, runVars>>

AppendUpdate ==
    /\ dpc = "building"
    /\ DeltaSize(delta) < MaxEntries
    /\ \E k \in ApplyKeys, f \in Values, t \in Values :
          delta' = [delta EXCEPT
                      !.updates = Append(@, [key |-> k, from |-> f, to |-> t])]
    /\ UNCHANGED <<original, patched, result, dpc, parseVars, renderVars, runVars>>

AppendAddition ==
    /\ dpc = "building"
    /\ DeltaSize(delta) < MaxEntries
    /\ \E k \in ApplyKeys, v \in Values :
          delta' = [delta EXCEPT !.additions = Append(@, [key |-> k, value |-> v])]
    /\ UNCHANGED <<original, patched, result, dpc, parseVars, renderVars, runVars>>

\* ConfigManager.apply_delta(config, delta)
ApplyArbitrary ==
    /\ dpc = "building"
    /\ result' = apply_delta(original, delta)
    /\ dpc' = "applied"
    /\ UNCHANGED <<original, patched, delta, parseVars, renderVars, runVars>>

ApplyNext == AppendDeletion \/ AppendUpdate \/ AppendAddition \/ ApplyArbitrary

ApplySpec == ApplyInit /\ [][ApplyNext]_vars

---------------------------------------------------------------------------
(* Claims about the delta engine.                                          *)

\* C1: round trip.  For all flat configs A and B, whatever their key sets
\* and values, apply_delta(A, compute_delta(A, B)) equals B.
C1_RoundTrip == dpc = "applied" => result = patched

\* C1 witness: a round trip in which the key sets overlap without either
\* containing the other and a shared key changes value, so that all three
\* lists of the delta are used.
C1_Witness ==
    /\ dpc = "applied"
    /\ delta.additions # <<>>
    /\ delta.deletions # <<>>
    /\ delta.updates # <<>>

AddIdx(d, k) == {i \in DOMAIN d.additions : d.additions[i].key = k}
UpdIdx(d, k) == {i \in DOMAIN d.updates : d.updates[i].key = k}
DelIdx(d, k) == {i \in DOMAIN d.deletions : d.deletions[i] = k}

\* C2: compute_delta partitions the keys exactly.  additions holds one
\* {key, value = patched[key]} entry per key only in patched and nothing else;
\* deletions holds exactly the keys only in original; updates holds one
\* {key, from = original[key], to = patched[key]} entry per shared key whose
\* values differ and nothing else; a shared key with equal values is in no
\* list, so compute_delta(A, A) is three empty lists.
C2_Partition ==
    dpc = "computed" =>
        /\ \A k \in Keys :
              /\ Cardinality(AddIdx(delta, k)) =
                    (IF k \in DOMAIN patched /\ k \notin DOMAIN original THEN 1 ELSE 0)
              /\ Cardinality(DelIdx(delta, k)) =
                    (IF k \in DOMAIN original /\ k \notin DOMAIN patched THEN 1 ELSE 0)
              /\ Cardinality(UpdIdx(delta, k)) =
                    (IF k \in DOMAIN original /\ k \in DOMAIN patched
                        /\ original[k] # patched[k] THEN 1 ELSE 0)
        /\ \A i \in DOMAIN delta.additions :
              delta.additions[i] =
                [key |-> delta.additions[i].key,
                 value |-> patched[delta.additions[i].key]]
        /\ \A i \in DOMAIN delta.updates :
              delta.updates[i] =
                [key |-> delta.updates[i].key,
                 from |-> original[delta.updates[i].key],
                 to |-> patched[delta.updates[i].key]]
        /\ Range(delta.deletions) \subseteq Keys
        /\ original = patched => delta = EmptyDelta

\* C2 witness: a computed delta for two configs that share a key with equal
\* values and a key with different values, and each hold a key of their own.
C2_Witness ==
    /\ dpc = "computed"
    /\ \E k \in DOMAIN original \cap DOMAIN patched : original[k] = patched[k]
    /\ delta.updates # <<>>
    /\ delta.additions # <<>>
    /\ delta.deletions # <<>>

\* C3: apply_delta accepts any delta and follows the precedence deletions,
\* then updates, then additions.  It returns a config also when a deletion
\* key is absent, and for every key k the result holds: the value of the
\* (last) addition of k if k is in additions; otherwise the `to` of the
\* (last) update of k if k is in updates, also when k is deleted as well or
\* was absent; otherwise nothing if k is in deletions; otherwise what the
\* config held for k.
C3_Precedence ==
    dpc = "applied" =>
        /\ DOMAIN result \subseteq ApplyKeys
        /\ \A k \in ApplyKeys :
              IF AddIdx(delta, k) # {}
              THEN /\ k \in DOMAIN result
                   /\ result[k] = delta.additions[MaxOf(AddIdx(delta, k))].value
              ELSE IF UpdIdx(delta, k) # {}
              THEN /\ k \in DOMAIN result
                   /\ result[k] = delta.updates[MaxOf(UpdIdx(delta, k))].to
              ELSE IF DelIdx(delta, k) # {}
              THEN k \notin DOMAIN result
              ELSE /\ k \in DOMAIN result <=> k \in DOMAIN original
                   /\ k \in DOMAIN original => result[k] = original[k]

\* C3 witness: a delta applied in which one key is deleted, updated and
\* added at once with different values, and a deleted key is absent from
\* the config.
C3_Witness ==
    /\ dpc = "applied"
    /\ \E k \in ApplyKeys :
          /\ AddIdx(delta, k) # {} /\ UpdIdx(delta, k) # {} /\ DelIdx(delta, k) # {}
          /\ k \notin DOMAIN original
          /\ \E i \in AddIdx(delta, k), j \in UpdIdx(delta, k) :
                delta.additions[i].value # delta.updates[j].to

---------------------------------------------------------------------------
(* RunSpec: Application.run, step by step, in every environment: the       *)
(* model file present or not, well-formed or not, with or without a root;  *)
(* config.json and patched_config.json present or not; any one of the four *)
(* writes failing.                                                         *)

Artifacts == <<"config.xml", "meta.json", "delta.json", "res_patched_config.json">>

File(c) == [exists |-> TRUE, content |-> c]

RunDocs ==
    {<<[tag |-> "Class", attrib |-> [name |-> "A", isRoot |-> "true"],
        children |-> <<AttributeElem("color", "string")>>],
       [tag |-> "Class", attrib |-> [name |-> "B", isRoot |-> "false"], children |-> <<>>],
       AggregationElem("B", "A", Mult_1_many)>>,
     <<[tag |-> "Class", attrib |-> [name |-> "B", isRoot |-> "false"], children |-> <<>>]>>,
     <<[tag |-> "Class", attrib |-> [name |-> "A", isRoot |-> "true"], children |-> <<>>],
       AggregationElem("X", "A", Mult_3)>>,
     <<[tag |-> "Class", attrib |-> [name |-> "A", documentation |-> "top"],
        children |-> <<>>]>>}

RunConfigs ==
    {EmptyConfig, [k \in {"a", "b"} |-> IF k = "a" THEN 1 ELSE 2],
     [k \in {"b", "c"} |-> IF k = "b" THEN 1 ELSE 2]}

RunInit ==
    /\ env \in [xml : {NoFile} \cup {File(d) : d \in RunDocs},
                config : {NoFile} \cup {File(c) : c \in RunConfigs},
                patched : {NoFile} \cup {File(c) : c \in RunConfigs},
                failWrite : {"none"} \cup Range(Artifacts)]
    /\ written = <<>>
    /\ rpc = "start"
    /\ ParseIdle
    /\ RenderIdle
    /\ original = EmptyConfig /\ patched = EmptyConfig /\ delta = EmptyDelta
    /\ result = EmptyConfig /\ dpc = "idle"

\* ConfigGenerator.save_to_file(filename, ...) followed by the step `next`.
\* A write that fails ends the run; it fails either in open, leaving no
\* file, or while writing, leaving a file that is not complete.
save_to_file(filename, next) ==
    IF env.failWrite = filename
    THEN /\ rpc' = "failed"
         /\ written' \in {written, Append(written, [name |-> filename, complete |-> FALSE])}
    ELSE /\ rpc' = next
         /\ written' = Append(written, [name |-> filename, complete |-> TRUE])

\* model = self.parser.parse("impulse_test_input.xml")
RunParse ==
    /\ rpc = "start"
    /\ IF ~env.xml.exists
       THEN /\ rpc' = "failed"
            /\ UNCHANGED <<parseVars, model>>
       ELSE /\ ParseCall(env.xml.content)
            /\ rpc' = IF outcome' = "ok" THEN "parsed" ELSE "failed"
            /\ model' = IF outcome' = "ok" THEN GraphOf(parser') ELSE model
    /\ UNCHANGED <<deltaVars, xmlOut, metaOut, env, written>>

\* save_to_file("config.xml", generate_config_xml(model), is_json=False)
RunConfigXml ==
    /\ rpc = "parsed"
    /\ xmlOut' = generate_config_xml(model)
    /\ IF xmlOut'.err # ""
       THEN rpc' = "failed" /\ UNCHANGED written
       ELSE save_to_file(Artifacts[1], "xmlSaved")
    /\ UNCHANGED <<deltaVars, parseVars, model, metaOut, env>>

\* save_to_file("meta.json", generate_meta_json(model))
RunMetaJson ==
    /\ rpc = "xmlSaved"
    /\ metaOut' = [err |-> "", entries |-> generate_meta_json(model)]
    /\ save_to_file(Artifacts[2], "metaSaved")
    /\ UNCHANGED <<deltaVars, parseVars, model, xmlOut, env>>

\* with open("config.json") ...; with open("patched_config.json") ...
RunLoad ==
    /\ rpc = "metaSaved"
    /\ IF env.config.exists /\ env.patched.exists
       THEN /\ original' = env.config.content
            /\ patched' = env.patched.content
            /\ rpc' = "loaded"
       ELSE /\ rpc' = "failed"
            /\ UNCHANGED <<original, patched>>
    /\ UNCHANGED <<delta, result, dpc, parseVars, renderVars, env, written>>

\* delta = compute_delta(...); save_to_file("delta.json", delta)
RunDelta ==
    /\ rpc = "loaded"
    /\ delta' \in compute_delta(original, patched)
    /\ save_to_file(Artifacts[3], "deltaSaved")
    /\ UNCHANGED <<original, patched, result, dpc, parseVars, renderVars, env>>

\* result_config = apply_delta(...); save_to_file("res_patched_config.json", ...)
RunApply ==
    /\ rpc = "deltaSaved"
    /\ result' = apply_delta(original, delta)
    /\ save_to_file(Artifacts[4], "done")
    /\ UNCHANGED <<original, patched, delta, dpc, parseVars, renderVars, env>>

RunNext == RunParse \/ RunConfigXml \/ RunMetaJson \/ RunLoad \/ RunDelta \/ RunApply

RunSpec == RunInit /\ [][RunNext]_vars

\* C4: a run is all-or-nothing in its four artifacts.  In every execution,
\* failing ones included, the run either completes having written all four
\* artifacts or fails before having written any of them.
C4_AllOrNothing ==
    /\ rpc = "done" =>
          written = [i \in DOMAIN Artifacts |-> [name |-> Artifacts[i], complete |-> TRUE]]
    /\ rpc = "failed" => written = <<>>

=============================================================================
